---- MODULE Spec2Model ----
(***************************************************************************)
(* A model of bot.py, the schema-change notification relay: the event      *)
(* classifier and deduplicator, the schema introspector, the diff engine,  *)
(* the notification orchestrator and the startup reconciliation sweep.     *)
(*                                                                         *)
(* Python strings are sequences of one-character strings, so that          *)
(* str.replace, str.strip, str.lower, str.split and the `in` test are      *)
(* computed character by character as Python computes them.                *)
(***************************************************************************)
EXTENDS Integers, Sequences, FiniteSets, TLC

\* ------------------------------------------------------------------------
\* Bounds of the model
\* ------------------------------------------------------------------------

\* the wall clock runs from 0 to MaxTime seconds
MaxTime == 7
\* raw identifiers are built from at most MaxTokens fragments
MaxTokens == 3
\* structural descriptions of the diff engine range over NumCols columns
NumCols == 3
\* the texts given to safe_truncate are of at most MaxTextLen characters, the
\* definition text of 5000 characters aside
MaxTextLen == 4

\* ------------------------------------------------------------------------
\* Strings
\* ------------------------------------------------------------------------

Min(a, b) == IF a <= b THEN a ELSE b

EmptyStr == <<>>

\* the literal 'public.' of line 190
PublicDot == <<"p", "u", "b", "l", "i", "c", ".">>
\* the literal '"' of line 190
Quote == <<"\"">>
\* the literal '[]' of line 190
Brackets == <<"[", "]">>
\* the characters str.strip() removes that the model's alphabet holds
Whitespace == {" "}

\* s[i:] of Python, i counted from 0
Drop(s, n) == SubSeq(s, n + 1, Len(s))

StartsWith(s, pat) == Len(s) >= Len(pat) /\ SubSeq(s, 1, Len(pat)) = pat

\* pat in s
Contains(s, pat) ==
  \E i \in 1..(Len(s) - Len(pat) + 1) : SubSeq(s, i, i + Len(pat) - 1) = pat

\* s.replace(pat, ''): the non-overlapping occurrences of pat, found left to
\* right, are removed in one pass; what the removal brings together is not
\* looked at again.
RECURSIVE RemoveAll(_, _)
RemoveAll(s, pat) ==
  IF Len(s) < Len(pat) THEN s
  ELSE IF StartsWith(s, pat) THEN RemoveAll(Drop(s, Len(pat)), pat)
  ELSE <<Head(s)>> \o RemoveAll(Tail(s), pat)

RECURSIVE LStrip(_)
LStrip(s) == IF s # <<>> /\ Head(s) \in Whitespace THEN LStrip(Tail(s)) ELSE s

RECURSIVE RStrip(_)
RStrip(s) ==
  IF s # <<>> /\ s[Len(s)] \in Whitespace THEN RStrip(SubSeq(s, 1, Len(s) - 1)) ELSE s

\* s.strip()
Strip(s) == RStrip(LStrip(s))

\* c.lower() on the letters of the model's alphabet
LowerChar(c) ==
  CASE c = "O" -> "o"
    [] c = "U" -> "u"
    [] c = "P" -> "p"
    [] c = "K" -> "k"
    [] c = "E" -> "e"
    [] c = "Y" -> "y"
    [] c = "S" -> "s"
    [] c = "Q" -> "q"
    [] c = "I" -> "i"
    [] c = "D" -> "d"
    [] c = "X" -> "x"
    [] c = "F" -> "f"
    [] c = "G" -> "g"
    [] c = "T" -> "t"
    [] c = "A" -> "a"
    [] OTHER -> c

\* s.lower()
Lower(s) == [i \in 1..Len(s) |-> LowerChar(s[i])]

\* raw_name.replace('public.', '').replace('"', '').replace('[]', '').strip()
Normalize(raw_name) ==
  Strip(RemoveAll(RemoveAll(RemoveAll(raw_name, PublicDot), Quote), Brackets))

\* f"public.{normalized_name}"
FullDbName(normalized_name) == PublicDot \o normalized_name

\* the artifact substrings of line 193
NoisePatterns ==
  { <<"_", "p", "k", "e", "y">>,
    <<"_", "s", "e", "q">>,
    <<"_", "i", "d", "x">>,
    <<"p", "g", "_", "t", "o", "a", "s", "t">>,
    <<"_", "f", "k", "e", "y">> }

\* the test without .lower()
IsNoiseCaseSensitive(normalized_name) ==
  \E p \in NoisePatterns : Contains(normalized_name, p)

\* any(p in normalized_name.lower() for p in [...])
IsNoise(normalized_name) ==
  \E p \in NoisePatterns : Contains(Lower(normalized_name), p)

\* the notice of line 34
TruncationMarker ==
  <<
     "\n", "\n", ".", ".", ".", " ", "[", "T", "r", "u",
     "n", "c", "a", "t", "e", "d", ":", " ", "E", "x",
     "c", "e", "e", "d", "e", "d", " ", "S", "l", "a",
     "c", "k", " ", "L", "i", "m", "i", "t", "s", "]" >>

\* the default of the parameter `limit` (line 32)
DefaultLimit == 2500

\* a cut at one character less than the limit
safe_truncate_short(text, limit) ==
  IF text = EmptyStr THEN EmptyStr
  ELSE IF Len(text) <= limit THEN text
  ELSE SubSeq(text, 1, limit - 1) \o TruncationMarker

\* lines 32-34: safe_truncate(text, limit)
safe_truncate(text, limit) ==
  IF text = EmptyStr THEN EmptyStr
  ELSE IF Len(text) <= limit THEN text
  ELSE SubSeq(text, 1, limit) \o TruncationMarker

\* ------------------------------------------------------------------------
\* The database: the catalog of the public schema and public.schema_snapshots
\* ------------------------------------------------------------------------

\* the base tables the public schema may hold (schema_snapshots itself aside)
TableNames == { <<"O">>, <<"U">> }

Details(t, n) == [type |-> t, nullable |-> n]

\* the structural descriptions of the tables of the event-handling model:
\* a table without columns, and the two descriptions of the diff example
NoColumns == <<>>
DescOld == ("a" :> Details("int", "NO")) @@ ("b" :> Details("text", "YES"))
DescNew == ("b" :> Details("varchar", "YES")) @@ ("c" :> Details("int", "NO"))
\* table O takes each of them in turn, table U keeps one description
TableDescs(t) == IF t = <<"O">> THEN { NoColumns, DescOld, DescNew } ELSE { DescOld }

\* a catalog entry: the table is absent, or present with its columns
Absent == [exists |-> FALSE]
Present(d) == [exists |-> TRUE, cols |-> d]
CatalogEntries(t) == { Absent } \cup { Present(d) : d \in TableDescs(t) }

\* JSON values as Python sees them: None, or a dict
JsonNull == [null |-> TRUE]
JsonObj(d) == [null |-> FALSE, obj |-> d]
\* `if old_cols:` is false for None and for {}
Truthy(j) == ~j.null /\ DOMAIN j.obj # {}

\* a row of public.schema_snapshots, without its key and updated_at
SnapshotRow(cols, sql) == [columns_data |-> cols, raw_sql |-> sql]

\* ------------------------------------------------------------------------
\* Schema introspector: get_current_table_schema
\* ------------------------------------------------------------------------

\* the index of the first "." of s, 0 when there is none
FirstDot(s) ==
  IF \E i \in 1..Len(s) : s[i] = "."
  THEN CHOOSE i \in 1..Len(s) : s[i] = "." /\ \A j \in 1..(i - 1) : s[j] # "."
  ELSE 0

\* lines 42-47: s_name, t_name and quoted_identity of a table name
SplitName(full_table_name) ==
  LET d == FirstDot(full_table_name) IN
  IF d > 0
  THEN [s_name |-> SubSeq(full_table_name, 1, d - 1),
        t_name |-> Drop(full_table_name, d),
        quoted |-> Quote \o SubSeq(full_table_name, 1, d - 1) \o Quote \o <<".">>
                   \o Quote \o Drop(full_table_name, d) \o Quote]
  ELSE [s_name |-> <<"p", "u", "b", "l", "i", "c">>,
        t_name |-> full_table_name,
        quoted |-> Quote \o full_table_name \o Quote]

\* whether the relation the two queries look at exists: the catalog holds the
\* base tables of the public schema only
RelationExists(cat, n) ==
  /\ n.s_name = <<"p", "u", "b", "l", "i", "c">>
  /\ n.t_name \in DOMAIN cat
  /\ cat[n.t_name].exists

\* lines 51-61: jsonb_object_agg over the columns of the table is NULL when no
\* row matches, so res is (None,) and cols_json is None
ColsJson(cat, n) ==
  IF RelationExists(cat, n) /\ DOMAIN cat[n.t_name].cols # {}
  THEN JsonObj(cat[n.t_name].cols)
  ELSE JsonNull

\* lines 64-91: the text built by the second query; string_agg over no column
\* is NULL and makes the whole concatenation NULL
SqlNull == [null |-> TRUE]
SqlText(quoted, d) == [null |-> FALSE, create_table |-> quoted, columns |-> d]
RawSql(cat, n) ==
  IF DOMAIN cat[n.t_name].cols # {}
  THEN SqlText(n.quoted, cat[n.t_name].cols)
  ELSE SqlNull

\* get_current_table_schema(conn, full_table_name): the pair it returns, or
\* the exception of `%s::regclass` (line 70) for a relation that does not
\* exist, which the function does not catch
Raised == [raised |-> TRUE]
Returned(cols, sql) == [raised |-> FALSE, cols_json |-> cols, raw_sql_string |-> sql]
get_current_table_schema(cat, full_table_name) ==
  LET n == SplitName(full_table_name) IN
  IF RelationExists(cat, n)
  THEN Returned(ColsJson(cat, n), RawSql(cat, n))
  ELSE Raised

\* ------------------------------------------------------------------------
\* Diff engine: generate_schema_diff
\* ------------------------------------------------------------------------

\* the order in which a dict read from a jsonb value lists its keys
ColOrder == <<"a", "b", "c", "d", "e">>

\* the keys of dict d in iteration order
Keys(d) == SelectSeq(ColOrder, LAMBDA c : c \in DOMAIN d)

AddedEntry(col, dtype) == [kind |-> "added", col |-> col, type |-> dtype]
RemovedEntry(col) == [kind |-> "removed", col |-> col]
ModifiedEntry(col, old_type, new_type) ==
  [kind |-> "modified", col |-> col, old |-> old_type, new |-> new_type]
\* line 155
NoChangePlaceholder == <<[kind |-> "no_column_changes"]>>

\* lines 137-140
Additions(old_cols, new_cols) ==
  LET cs == SelectSeq(Keys(new_cols), LAMBDA c : c \notin DOMAIN old_cols)
  IN  [i \in 1..Len(cs) |-> AddedEntry(cs[i], new_cols[cs[i]].type)]

\* lines 143-145
Removals(old_cols, new_cols) ==
  LET cs == SelectSeq(Keys(old_cols), LAMBDA c : c \notin DOMAIN new_cols)
  IN  [i \in 1..Len(cs) |-> RemovedEntry(cs[i])]

\* a comparison of the whole column details instead of the type
TypeChangesOnAnyDetail(old_cols, new_cols) ==
  LET cs == SelectSeq(Keys(new_cols),
                      LAMBDA c : c \in DOMAIN old_cols /\ old_cols[c] # new_cols[c])
  IN  [i \in 1..Len(cs) |-> ModifiedEntry(cs[i], old_cols[cs[i]].type, new_cols[cs[i]].type)]

\* lines 148-152
TypeChanges(old_cols, new_cols) ==
  LET cs == SelectSeq(Keys(new_cols),
                      LAMBDA c : c \in DOMAIN old_cols
                                 /\ old_cols[c].type # new_cols[c].type)
  IN  [i \in 1..Len(cs) |-> ModifiedEntry(cs[i], old_cols[cs[i]].type, new_cols[cs[i]].type)]

\* a diff that returns the joined changes even when there are none
generate_schema_diff_without_placeholder(old_cols, new_cols) ==
  Additions(old_cols, new_cols) \o Removals(old_cols, new_cols)
    \o TypeChanges(old_cols, new_cols)

\* generate_schema_diff(old_cols, new_cols): the lines of the text it returns
\* ("\n".join(changes), or the placeholder line)
generate_schema_diff(old_cols, new_cols) ==
  LET changes == Additions(old_cols, new_cols) \o Removals(old_cols, new_cols)
                 \o TypeChanges(old_cols, new_cols)
  IN  IF changes = <<>> THEN NoChangePlaceholder ELSE changes

\* ------------------------------------------------------------------------
\* State
\* ------------------------------------------------------------------------

VARIABLES
  now,        \* the wall clock, in seconds (datetime.now()); it never runs backwards
  pc,         \* where the process is: "start", "connect", "listening", "backoff"
  subs,       \* the channels LISTENed to on the polling loop's connection
  recent,     \* _recent_notifications: normalized name -> time of last accepted event
  catalog,    \* the base tables of the public schema: name -> catalog entry
  snapshots,  \* public.schema_snapshots, committed rows: table_name -> row
  sent,       \* the requests the most recent step made to the message sink
              \* (its chat_postMessage calls, in order)
  last,       \* what the most recent step was and did
  accepted,   \* normalized name -> the times at which the deduplicator let an
              \* event for it through
  probe,      \* a pure function under test: its input and its results
  threads,    \* the invocations of handle_schema_notification that run side by
              \* side: thread -> where it is, its subject and its timestamp
  notification_lock   \* _notification_lock: the threads that hold it

vars ==
  <<now, pc, subs, recent, catalog, snapshots, sent, last, accepted, probe, threads,
    notification_lock>>

\* line 21; the channel the schema alerts go to
DEFAULT_ALERTS_CHANNEL == "supabase-schema-updates"

\* the dedup window of line 198, in seconds
DedupSeconds == 5
\* time.sleep(5) of line 325
RetrySeconds == 5
\* time.sleep(1) of line 240
CreateDelaySeconds == 1

\* command tags, as the words they are made of
CreateTable == <<"CREATE", "TABLE">>
AlterTable == <<"ALTER", "TABLE">>
DropTable == <<"DROP", "TABLE">>
CreateIndex == <<"CREATE", "INDEX">>
\* line 188
TrackedCommands == { CreateTable, AlterTable, DropTable }
\* "DROP" in command, for a command that line 188 let through
HasWord(command, w) == \E i \in 1..Len(command) : command[i] = w

\* the payloads of the schema_changes channel in the event-handling model; a
\* key that is missing and a key holding '' are the same to
\* payload.get(..) or ..
Payload(command, name, identity, type) ==
  [command_tag |-> command, object_name |-> name, object_identity |-> identity,
   object_type |-> type]
SchemaSubjects ==
  { <<PublicDot \o <<"O">>, EmptyStr>>,
    <<Quote \o <<"O">> \o Quote \o Brackets, PublicDot \o <<"U">>>>,
    <<EmptyStr, PublicDot \o <<"U">>>>,
    <<<<"O", "_", "P", "K", "E", "Y">>, EmptyStr>>,
    <<EmptyStr, EmptyStr>> }
\* every command on every subject as a table event, and every command on
\* public.O as the event of an index
SchemaPayloads ==
  { Payload(c, n[1], n[2], "table") :
      c \in TrackedCommands \cup { CreateIndex }, n \in SchemaSubjects }
  \cup { Payload(c, PublicDot \o <<"O">>, EmptyStr, "index") :
           c \in TrackedCommands \cup { CreateIndex } }

\* where the database phase of a branch can fail
DropFailPoints == { "none", "connect", "write", "commit" }
AlterFailPoints == { "none", "connect", "read", "introspect", "write", "commit" }
CreateFailPoints == { "none", "connect", "introspect", "write", "commit" }
FailPoints(command) ==
  IF HasWord(command, "DROP") THEN DropFailPoints
  ELSE IF HasWord(command, "ALTER") THEN AlterFailPoints
  ELSE CreateFailPoints

SnapshotKeys == { FullDbName(t) : t \in TableNames }

\* the row the upserts of lines 116-120, 230-234 and 243-247 write
UpsertRow(res) == SnapshotRow(res.cols_json, res.raw_sql_string)

\* the stores an earlier run of the process may have left behind: any set of
\* rows that earlier upserts wrote
EarlierRows(t) ==
  { UpsertRow(get_current_table_schema([x \in TableNames |-> Present(d)], FullDbName(t)))
      : d \in TableDescs(t) }
InitSnapshots ==
  UNION { { f \in [{ FullDbName(t) : t \in T } -> UNION { EarlierRows(t) : t \in T }] :
              \A t \in T : f[FullDbName(t)] \in EarlierRows(t) }
          : T \in SUBSET TableNames }

Idle == [op |-> "none"]

\* the threads that call handle_schema_notification side by side
Threads == { "T1", "T2" }
NotRunning == [at |-> "idle"]

NoProbe == [fn |-> "none"]

InitProgram ==
  /\ now = 0
  /\ pc = "start"
  /\ subs = {}
  /\ recent = <<>>
  /\ catalog = [t \in TableNames |-> Absent]
  /\ snapshots \in InitSnapshots
  /\ sent = <<>>
  /\ last = Idle
  /\ accepted = <<>>
  /\ threads = [i \in Threads |-> NotRunning]
  /\ notification_lock = {}

Init == InitProgram /\ probe = NoProbe

\* ------------------------------------------------------------------------
\* handle_schema_notification
\* ------------------------------------------------------------------------

\* line 186: payload.get("object_name") or payload.get("object_identity") or ""
RawNameOf(payload) ==
  IF payload.object_name # EmptyStr THEN payload.object_name ELSE payload.object_identity

\* line 188: the event is not a tracked table-DDL event with a subject
NotTracked(payload) ==
  RawNameOf(payload) = EmptyStr \/ payload.command_tag \notin TrackedCommands

\* a window that also covers the event arriving exactly 5 seconds later
IsDuplicateUpToWindow(cache, normalized_name, t) ==
  /\ normalized_name \in DOMAIN cache
  /\ t - cache[normalized_name] <= DedupSeconds

\* lines 197-198: an entry exists and is less than 5 seconds old
IsDuplicate(cache, normalized_name, t) ==
  /\ normalized_name \in DOMAIN cache
  /\ t - cache[normalized_name] < DedupSeconds

\* a cache that keeps the first timestamp of a name
RecordFirstOnly(cache, normalized_name, t) ==
  IF normalized_name \in DOMAIN cache THEN cache
  ELSE (normalized_name :> t) @@ cache

\* line 199
Record(cache, normalized_name, t) == (normalized_name :> t) @@ cache

\* what get_current_table_schema gives a handler whose database connection
\* may fail while it runs
Introspect(cat, full_db_name, fail) ==
  IF fail = "introspect" THEN Raised ELSE get_current_table_schema(cat, full_db_name)

\* how a call of get_current_table_schema ended, for `last`
NotCalled == "not called"
ConnectionError == "connection error"
Ended(cat, full_db_name, fail) ==
  IF fail = "introspect" THEN ConnectionError
  ELSE IF get_current_table_schema(cat, full_db_name).raised THEN "raised"
  ELSE "returned"

\* the outcome of the try block of lines 206-253: whether it raised, the
\* committed rows it leaves, the diff text and how introspection ended
DbResult(failed, rows, diff_text, intro) ==
  [failed |-> failed, snapshots |-> rows, diff_text |-> diff_text, intro |-> intro]

\* a DELETE without its WHERE clause
DeleteEveryRow(rows, full_db_name) == <<>>

\* line 211: DELETE ... WHERE table_name = full_db_name
DeleteRow(rows, full_db_name) == [k \in DOMAIN rows \ { full_db_name } |-> rows[k]]

\* lines 208-212
DropBranch(rows, full_db_name, fail) ==
  IF fail \in { "write", "commit" }
  THEN DbResult(TRUE, rows, <<>>, NotCalled)
  ELSE DbResult(FALSE, DeleteRow(rows, full_db_name), <<>>, NotCalled)

\* an INSERT that leaves a row that is already there as it is
InsertIfAbsent(rows, full_db_name, res) ==
  IF full_db_name \in DOMAIN rows THEN rows ELSE (full_db_name :> UpsertRow(res)) @@ rows

\* lines 243-247 and 230-234: INSERT ... ON CONFLICT (table_name) DO UPDATE
Upsert(rows, full_db_name, res) == (full_db_name :> UpsertRow(res)) @@ rows

\* lines 215-235
AlterBranch(cat, rows, full_db_name, fail) ==
  LET old_cols == IF full_db_name \in DOMAIN rows
                  THEN rows[full_db_name].columns_data
                  ELSE JsonObj(<<>>)
      res == Introspect(cat, full_db_name, fail)
      how == Ended(cat, full_db_name, fail)
  IN  IF fail = "read" THEN DbResult(TRUE, rows, <<>>, NotCalled)
      ELSE IF res.raised THEN DbResult(TRUE, rows, <<>>, how)
      \* generate_schema_diff(old_cols, None) raises at new_cols.items()
      ELSE IF Truthy(old_cols) /\ res.cols_json.null THEN DbResult(TRUE, rows, <<>>, how)
      ELSE LET diff_text == IF Truthy(old_cols)
                            THEN generate_schema_diff(old_cols.obj, res.cols_json.obj)
                            ELSE <<>>
           IN  IF fail \in { "write", "commit" }
               THEN DbResult(TRUE, rows, diff_text, how)
               ELSE DbResult(FALSE, Upsert(rows, full_db_name, res), diff_text, how)

\* lines 238-248
CreateBranch(cat, rows, full_db_name, fail) ==
  LET res == Introspect(cat, full_db_name, fail)
      how == Ended(cat, full_db_name, fail)
  IN  IF res.raised THEN DbResult(TRUE, rows, <<>>, how)
      ELSE IF fail \in { "write", "commit" } THEN DbResult(TRUE, rows, <<>>, how)
      ELSE DbResult(FALSE, Upsert(rows, full_db_name, res), <<>>, how)

\* lines 206-253
DbPhase(command, cat, rows, full_db_name, fail) ==
  IF HasWord(command, "DROP") THEN DropBranch(rows, full_db_name, fail)
  ELSE IF HasWord(command, "ALTER") THEN AlterBranch(cat, rows, full_db_name, fail)
  ELSE CreateBranch(cat, rows, full_db_name, fail)

\* line 268: the 'View Full Schema' button
SchemaButton(normalized_name) ==
  [action_id |-> "view_schema_details", value |-> normalized_name]

\* line 267-268: no button on a DROP
SchemaElements(command, normalized_name) ==
  IF HasWord(command, "DROP") THEN <<>> ELSE <<SchemaButton(normalized_name)>>

\* lines 256-271: the message handed to chat_postMessage
SchemaMessage(command, normalized_name, diff_text) ==
  [channel |-> DEFAULT_ALERTS_CHANNEL,
   title |-> IF HasWord(command, "DROP") THEN "Table Deleted" ELSE "Schema Change Detected",
   table |-> normalized_name,
   action |-> command,
   changes |-> diff_text,
   elements |-> SchemaElements(command, normalized_name)]

\* lines 250-271: the except clause only prints; control falls through to the
\* message building and chat_postMessage whatever the database phase did
PostedAfterDb(db, message) == <<message>>

\* the times at which an event for the name was let through
AcceptedAt(acc, normalized_name) ==
  IF normalized_name \in DOMAIN acc THEN acc[normalized_name] ELSE {}

\* what a step of handle_schema_notification leaves in `last`
SchemaStep(payload, subject, outcome, db, logged, intro) ==
  [op |-> "schema", command |-> payload.command_tag, subject |-> subject,
   object_type |-> payload.object_type, outcome |-> outcome,
   db |-> db, logged |-> logged, intro |-> intro]

\* names of database artifacts: each holds one of the substrings of line 193,
\* in lower case, in upper case or in mixed case
ArtifactNames ==
  { <<"o", "_", "p", "k", "e", "y">>, <<"O", "_", "P", "K", "E", "Y">>,
    <<"o", "_", "s", "e", "q">>, <<"O", "_", "S", "e", "q">>,
    <<"o", "_", "i", "d", "x">>, <<"_", "I", "D", "X", "o">>,
    <<"p", "g", "_", "t", "o", "a", "s", "t">>,
    <<"P", "G", "_", "T", "O", "A", "S", "T", "_", "O">>,
    <<"o", "_", "f", "k", "e", "y">>, <<"o", "_", "F", "K", "E", "Y", "_", "o">> }
\* the tracked commands on the artifacts, named with and without the schema,
\* and on table O
ArtifactPayloads ==
  { Payload(c, PublicDot \o n, EmptyStr, "table") : c \in TrackedCommands, n \in ArtifactNames }
  \cup { Payload(c, EmptyStr, n, "table") : c \in TrackedCommands, n \in ArtifactNames }
  \cup { Payload(c, PublicDot \o <<"O">>, EmptyStr, "table") : c \in TrackedCommands }

\* the names the payloads of the model normalize to, computed once
Normalized ==
  [r \in { RawNameOf(p) : p \in SchemaPayloads \cup ArtifactPayloads } |-> Normalize(r)]
\* the payloads that are not about table U
PayloadsOfO == { p \in SchemaPayloads : Normalized[RawNameOf(p)] # <<"U">> }

\* a window that every event seen moves
RestartOnDuplicate(cache, key, t) == (key :> t) @@ cache

\* line 198: the return of a duplicate leaves the cache as it is
OnDuplicate(cache, key, t) == cache

\* a cache with one entry per command and name
DedupKeyWithCommand(command, normalized_name) == command \o normalized_name

\* lines 197-199: what the cache is keyed on
DedupKey(command, normalized_name) == normalized_name

\* the polling loop pops one notification of channel schema_changes and
\* handles it (lines 318-320, 183-274); `fail` is where the database phase
\* fails. What chat_postMessage answers changes nothing but what is printed
\* (lines 272-274).
HandleSchema(payload) ==
  /\ pc = "listening"
  /\ "schema_changes" \in subs
  /\ now < MaxTime
  /\ UNCHANGED <<subs, catalog, probe, threads, notification_lock>>
  /\ LET normalized_name == Normalized[RawNameOf(payload)]
         full_db_name == FullDbName(normalized_name)
     IN
     IF NotTracked(payload)
     THEN /\ last' = SchemaStep(payload, EmptyStr, "ignored", "none", {}, NotCalled)
          /\ sent' = <<>>
          /\ UNCHANGED <<now, pc, recent, snapshots, accepted>>
     ELSE IF IsNoise(normalized_name)
     THEN /\ last' = SchemaStep(payload, normalized_name, "ignored", "none", {},
                                NotCalled)
          /\ sent' = <<>>
          /\ UNCHANGED <<now, pc, recent, snapshots, accepted>>
     ELSE IF IsDuplicate(recent, DedupKey(payload.command_tag, normalized_name), now)
     THEN /\ last' = SchemaStep(payload, normalized_name, "duplicate", "none", {},
                                NotCalled)
          /\ recent' = OnDuplicate(recent, DedupKey(payload.command_tag, normalized_name),
                                   now)
          /\ sent' = <<>>
          /\ UNCHANGED <<now, pc, snapshots, accepted>>
     ELSE /\ recent' = Record(recent, DedupKey(payload.command_tag, normalized_name), now)
          /\ accepted' = (normalized_name :> (AcceptedAt(accepted, normalized_name) \cup { now }))
                          @@ accepted
          /\ \E fail \in FailPoints(payload.command_tag) :
               IF fail = "connect"
               \* psycopg2.connect of line 204 raises outside the try block: the
               \* exception leaves the handler and reaches line 323
               THEN /\ last' = SchemaStep(payload, normalized_name, "accepted",
                                          "connect_failed", { "DB Connection lost" }, NotCalled)
                    /\ sent' = <<>>
                    /\ pc' = "backoff"
                    /\ UNCHANGED <<now, snapshots>>
               ELSE LET db == DbPhase(payload.command_tag, catalog, snapshots,
                                      full_db_name, fail)
                    IN  /\ snapshots' = db.snapshots
                        /\ now' = IF HasWord(payload.command_tag, "CREATE")
                                  THEN now + CreateDelaySeconds ELSE now
                        /\ sent' = PostedAfterDb(db, SchemaMessage(payload.command_tag,
                                                                  normalized_name, db.diff_text))
                        /\ last' = SchemaStep(payload, normalized_name, "accepted",
                                              IF db.failed THEN "failed" ELSE "ok",
                                              IF db.failed THEN { "DB Ops Error" } ELSE {},
                                              db.intro)
                        /\ pc' = pc

\* ------------------------------------------------------------------------
\* handle_schema_notification, statement by statement, called by several
\* threads for events that lines 188 and 193 let through
\* ------------------------------------------------------------------------

ThreadSubjects == { <<"O">>, <<"U">> }

Move(i, at) == [threads EXCEPT ![i].at = at]

\* a lock that anyone may take at any time
LockIgnored(holders) == TRUE

\* threading.Lock: it can be taken when no thread holds it
LockFree(holders) == holders = {}

\* lines 183-195: the thread is called for an event of subject n and reads
\* the clock
Enter(i, n) ==
  /\ threads[i].at = "idle"
  /\ threads' = [threads EXCEPT ![i] = [at |-> "timed", name |-> n, t |-> now]]
  /\ UNCHANGED <<now, pc, subs, recent, catalog, snapshots, sent, last, accepted, probe,
                  notification_lock>>

\* line 196: with _notification_lock
Acquire(i) ==
  /\ threads[i].at = "timed"
  /\ LockFree(notification_lock)
  /\ notification_lock' = notification_lock \cup { i }
  /\ threads' = Move(i, "locked")
  /\ UNCHANGED <<now, pc, subs, recent, catalog, snapshots, sent, last, accepted, probe>>

\* lines 197-198
Check(i) ==
  /\ threads[i].at = "locked"
  /\ threads' = Move(i, IF IsDuplicate(recent, threads[i].name, threads[i].t)
                        THEN "duplicate" ELSE "fresh")
  /\ UNCHANGED <<now, pc, subs, recent, catalog, snapshots, sent, last, accepted, probe,
                  notification_lock>>

\* line 199
Set(i) ==
  /\ threads[i].at = "fresh"
  /\ recent' = Record(recent, threads[i].name, threads[i].t)
  /\ threads' = Move(i, "recorded")
  /\ UNCHANGED <<now, pc, subs, catalog, snapshots, sent, last, accepted, probe,
                  notification_lock>>

\* the with block is left, by the return of line 198 or past line 199
Release(i) ==
  /\ threads[i].at \in { "duplicate", "recorded" }
  /\ notification_lock' = notification_lock \ { i }
  /\ threads' = Move(i, IF threads[i].at = "duplicate" THEN "rejected" ELSE "database")
  /\ UNCHANGED <<now, pc, subs, recent, catalog, snapshots, sent, last, accepted, probe>>

\* lines 204-253: the connect and the database phase; an exception of the
\* connect ends the call
Database(i, connected) ==
  /\ threads[i].at = "database"
  /\ threads' = Move(i, IF connected THEN "sink" ELSE "returned")
  /\ UNCHANGED <<now, pc, subs, recent, catalog, snapshots, sent, last, accepted, probe,
                  notification_lock>>

\* lines 256-274: the call of the message sink
Sink(i) ==
  /\ threads[i].at = "sink"
  /\ threads' = Move(i, "returned")
  /\ UNCHANGED <<now, pc, subs, recent, catalog, snapshots, sent, last, accepted, probe,
                  notification_lock>>

\* the call is over
Return(i) ==
  /\ threads[i].at \in { "rejected", "returned" }
  /\ threads' = [threads EXCEPT ![i] = NotRunning]
  /\ UNCHANGED <<now, pc, subs, recent, catalog, snapshots, sent, last, accepted, probe,
                  notification_lock>>

\* ------------------------------------------------------------------------
\* sync_schema_snapshots
\* ------------------------------------------------------------------------

SyncFailPoints == { "none", "connect", "list", "delete", "introspect", "write", "commit" }

\* lines 101-105: the live base tables of the public schema
LiveTables(cat) == { t \in DOMAIN cat : cat[t].exists }

\* a sweep that deletes nothing
PruneNothing(rows, live_full_names) == rows

\* lines 108-111: DELETE ... WHERE table_name NOT IN live_full_names, or every
\* row when no table is live
Prune(rows, live_full_names) ==
  [k \in DOMAIN rows \cap live_full_names |-> rows[k]]

\* lines 113-120: one upsert per live table
UpsertAll(cat, rows, live_full_names) ==
  [k \in live_full_names |-> UpsertRow(get_current_table_schema(cat, k))] @@ rows

\* the rows as the transaction of lines 99-120 has them when it ends: the
\* statement that raises changes nothing, and introspection or the upsert
\* raises at the first live table
InTransaction(cat, rows, live_full_names, fail) ==
  IF fail \in { "connect", "list", "delete" } THEN rows
  ELSE IF fail \in { "introspect", "write" } THEN Prune(rows, live_full_names)
  ELSE UpsertAll(cat, Prune(rows, live_full_names), live_full_names)

\* a connection in autocommit mode
Autocommitted(rows, work, reached_commit) == work

\* line 122: what the transaction did is in the store once conn.commit() has
\* returned, and is rolled back otherwise
Committed(rows, work, reached_commit) == IF reached_commit THEN work ELSE rows

\* lines 95-126: runs once, before the polling loop and the handlers start
\* (line 328); the except clause of lines 125-126 only prints
Sync(fail) ==
  /\ pc = "start"
  /\ LET live_full_names == { FullDbName(t) : t \in LiveTables(catalog) }
         raised == \E k \in live_full_names : get_current_table_schema(catalog, k).raised
         failed == fail # "none" \/ raised
         work == InTransaction(catalog, snapshots, live_full_names,
                               IF raised /\ fail = "none" THEN "introspect" ELSE fail)
     IN  /\ last' = [op |-> "sync", fail |-> fail,
                      db |-> IF failed THEN "failed" ELSE "ok",
                      logged |-> IF failed THEN { "Startup Sync Error" } ELSE {},
                      before |-> DOMAIN snapshots]
         /\ snapshots' = Committed(snapshots, work, ~failed)
  /\ pc' = "connect"
  /\ sent' = <<>>
  /\ UNCHANGED <<now, subs, recent, catalog, accepted, probe, threads, notification_lock>>

\* ------------------------------------------------------------------------
\* listen_forever
\* ------------------------------------------------------------------------

\* lines 309-314: connect and LISTEN on both channels; a failure reaches line 323
Connect(ok) ==
  /\ pc = "connect"
  /\ IF ok
     THEN pc' = "listening" /\ subs' = { "schema_changes", "table_data_updates" }
     ELSE pc' = "backoff" /\ subs' = {}
  /\ last' = [op |-> "connect", ok |-> ok]
  /\ sent' = <<>>
  /\ UNCHANGED <<now, recent, catalog, snapshots, accepted, probe, threads, notification_lock>>

\* line 316: conn.poll() raises on a lost connection
ConnectionLost ==
  /\ pc = "listening"
  /\ pc' = "backoff"
  /\ subs' = {}
  /\ last' = [op |-> "lost"]
  /\ sent' = <<>>
  /\ UNCHANGED <<now, recent, catalog, snapshots, accepted, probe, threads, notification_lock>>

\* line 319: json.loads(notify.payload) raises on a payload that is not JSON;
\* the exception reaches line 323
BadPayload ==
  /\ pc = "listening"
  /\ pc' = "backoff"
  /\ last' = [op |-> "bad_payload"]
  /\ sent' = <<>>
  /\ UNCHANGED <<now, subs, recent, catalog, snapshots, accepted, probe, threads, notification_lock>>

\* a loop that ends at the first exception
ExitOnError ==
  /\ pc = "backoff"
  /\ pc' = "stopped"
  /\ subs' = {}
  /\ last' = [op |-> "backoff"]
  /\ sent' = <<>>
  /\ UNCHANGED <<now, recent, catalog, snapshots, accepted, probe, threads, notification_lock>>

\* lines 324-325: time.sleep(5), then the loop connects again
Backoff ==
  /\ pc = "backoff"
  /\ now' = Min(now + RetrySeconds, MaxTime)
  /\ pc' = "connect"
  /\ subs' = {}
  /\ last' = [op |-> "backoff"]
  /\ sent' = <<>>
  /\ UNCHANGED <<recent, catalog, snapshots, accepted, probe, threads, notification_lock>>

\* ------------------------------------------------------------------------
\* handle_view_schema
\* ------------------------------------------------------------------------

\* the values of the 'View Full Schema' buttons in the channel: those of the
\* messages of this run and of earlier runs
ButtonValues == { <<"O">>, <<"U">> }

\* lines 163-181: a user presses a 'View Full Schema' button; the handler
\* introspects the button's value and opens a view with the definition text
ViewSchema(raw_identity, connect_ok) ==
  /\ pc # "start"
  /\ LET res == IF connect_ok THEN get_current_table_schema(catalog, raw_identity)
                ELSE Raised
     IN  last' = [op |-> "view", identity |-> raw_identity,
                  fail |-> IF connect_ok THEN "none" ELSE "connect",
                  intro |-> res,
                  sql_def |-> IF res.raised THEN [null |-> FALSE, error |-> TRUE]
                              ELSE res.raw_sql_string]
  /\ sent' = <<>>
  /\ UNCHANGED <<now, pc, subs, recent, catalog, snapshots, accepted, probe, threads, notification_lock>>

\* ------------------------------------------------------------------------
\* handle_data_notification
\* ------------------------------------------------------------------------

\* lines 23-27
MONITORED_TABLES ==
  [t \in { "Client", "Customer", "SystemWarning" } |->
     CASE t = "Client" ->
            [channel |-> "log-new-entries", display_column |-> "name",
             label |-> "New Client Added"]
       [] t = "Customer" ->
            [channel |-> "log-new-entries", display_column |-> "email",
             label |-> "New User Registered"]
       [] t = "SystemWarning" ->
            [channel |-> "log-new-entries", display_column |-> "description",
             label |-> "SYSTEM WARNING"]]

\* the values of a row: a string or null
StrValue(v) == [null |-> FALSE, str |-> v]
NullValue == [null |-> TRUE]
RowValues == { StrValue("Ann"), NullValue }
\* the columns of the rows, in the order a row lists them
RowColumnOrder == <<"name", "email">>
RowColumns == { RowColumnOrder[i] : i \in 1..Len(RowColumnOrder) }
Rows == UNION { [D -> RowValues] : D \in SUBSET RowColumns }

\* the payloads of channel table_data_updates: the table the row was
\* inserted into and the row, or no "data" key at all
DataTables == { "Client", "Customer", "SystemWarning", "Orders", "client" }
DataPayloads ==
  { [table |-> t, has_data |-> TRUE, data |-> r] : t \in DataTables, r \in Rows }
  \cup { [table |-> t, has_data |-> FALSE] : t \in DataTables }

\* line 282: payload.get("data", {})
RowDataOf(payload) == IF payload.has_data THEN payload.data ELSE <<>>

\* line 285: row_data.get(config["display_column"], "N/A")
DisplayVal(config, row_data) ==
  IF config.display_column \in DOMAIN row_data
  THEN row_data[config.display_column]
  ELSE StrValue("N/A")

\* json.dumps(row_data): the key and value pairs of the row, in its order
JsonDumps(row_data) ==
  LET ks == SelectSeq(RowColumnOrder, LAMBDA c : c \in DOMAIN row_data)
  IN  [i \in 1..Len(ks) |-> <<ks[i], row_data[ks[i]]>>]

\* the button of line 288
RowButton(row_data) == [action_id |-> "view_row_details", value |-> JsonDumps(row_data)]

\* lines 286-291: the request made to the message sink
DataMessage(table_name, row_data) ==
  LET config == MONITORED_TABLES[table_name] IN
  [channel |-> config.channel, label |-> config.label,
   item |-> DisplayVal(config, row_data), table |-> table_name,
   elements |-> <<RowButton(row_data)>>]

\* a handler that says nothing of a row without its display column
DataRequestsOfNamedRows(payload) ==
  IF payload.table \in DOMAIN MONITORED_TABLES
       /\ MONITORED_TABLES[payload.table].display_column \in DOMAIN RowDataOf(payload)
  THEN << DataMessage(payload.table, RowDataOf(payload)) >>
  ELSE <<>>

\* lines 283-291: the requests the handler makes for a payload
DataRequests(payload) ==
  IF payload.table \in DOMAIN MONITORED_TABLES
  THEN << DataMessage(payload.table, RowDataOf(payload)) >>
  ELSE <<>>

\* the polling loop pops one notification of channel table_data_updates and
\* handles it (lines 318-321, 280-293); what chat_postMessage answers changes
\* nothing but what is printed (lines 292-293). `repeat` says that the step
\* before handled the same payload at the same second.
HandleData(payload) ==
  /\ pc = "listening"
  /\ "table_data_updates" \in subs
  /\ sent' = DataRequests(payload)
  /\ last' = [op |-> "data", payload |-> payload,
               repeat |-> (last.op = "data" /\ last.payload = payload)]
  /\ UNCHANGED <<now, pc, subs, recent, catalog, snapshots, accepted, probe, threads, notification_lock>>

\* ------------------------------------------------------------------------
\* The environment: time passes, and the database's owner runs DDL
\* ------------------------------------------------------------------------

Tick ==
  /\ now < MaxTime
  /\ now' = now + 1
  /\ last' = Idle
  /\ sent' = <<>>
  /\ UNCHANGED <<pc, subs, recent, catalog, snapshots, accepted, probe, threads, notification_lock>>

Ddl(t, e) ==
  /\ catalog[t] # e
  /\ catalog' = [catalog EXCEPT ![t] = e]
  /\ last' = Idle
  /\ sent' = <<>>
  /\ UNCHANGED <<now, pc, subs, recent, snapshots, accepted, probe, threads, notification_lock>>

\* the startup sweep and the polling loop, the handling of a notification
\* aside
NextProgram ==
  \/ \E fail \in SyncFailPoints : Sync(fail)
  \/ \E ok \in BOOLEAN : Connect(ok)
  \/ ConnectionLost
  \/ Backoff

\* the schema changes under the process, whose notifications are about table
\* O and arrive back to back: the clock advances by the sleeps of the process
\* only
Next ==
  \/ NextProgram
  \/ \E payload \in PayloadsOfO : HandleSchema(payload)
  \/ \E raw_identity \in ButtonValues, connect_ok \in BOOLEAN :
       ViewSchema(raw_identity, connect_ok)
  \/ \E t \in TableNames : \E e \in CatalogEntries(t) : Ddl(t, e)

Spec == Init /\ [][Next]_vars

\* the clock runs under the polling loop, whose notifications are about O and
\* U, over a schema that holds table O only and with no button pressed
InitClock ==
  /\ now = 0
  /\ pc = "start"
  /\ subs = {}
  /\ recent = <<>>
  /\ catalog = [t \in TableNames |-> IF t = <<"O">> THEN Present(DescNew) ELSE Absent]
  /\ snapshots \in { f \in InitSnapshots : DOMAIN f \subseteq { FullDbName(<<"O">>) } }
  /\ sent = <<>>
  /\ last = Idle
  /\ accepted = <<>>
  /\ probe = NoProbe
  /\ threads = [i \in Threads |-> NotRunning]
  /\ notification_lock = {}

NextClock ==
  \/ NextProgram
  \/ \E payload \in SchemaPayloads : HandleSchema(payload)
  \/ Tick

SpecClock == InitClock /\ [][NextClock]_vars

\* the notifications of tables and of the artifacts the database makes for
\* them, over the same schema, the clock advancing by the sleeps of the
\* process only
NextArtifacts ==
  \/ NextProgram
  \/ \E payload \in ArtifactPayloads : HandleSchema(payload)

SpecArtifacts == InitClock /\ [][NextArtifacts]_vars

\* the tracked commands on table O
TablePayloads ==
  { Payload(c, PublicDot \o <<"O">>, EmptyStr, "table") : c \in TrackedCommands }

\* the notifications of both channels, those of schema_changes about table O,
\* the clock advancing by the sleeps of the process only
NextRows ==
  \/ NextProgram
  \/ \E payload \in TablePayloads : HandleSchema(payload)
  \/ \E payload \in DataPayloads : HandleData(payload)

SpecRows == InitClock /\ [][NextRows]_vars

\* the polling loop with notifications of both channels, some of them not
\* JSON. The sweep returns, a sleep ends, and of the attempts to connect made
\* again and again one succeeds.
NextLoop ==
  \/ NextProgram
  \/ \E payload \in TablePayloads : HandleSchema(payload)
  \/ \E payload \in { d \in DataPayloads : ~d.has_data } : HandleData(payload)
  \/ BadPayload

SpecLoop ==
  /\ InitClock
  /\ [][NextLoop]_vars
  /\ WF_vars(\E fail \in SyncFailPoints : Sync(fail))
  /\ WF_vars(Backoff)
  /\ SF_vars(Connect(TRUE))

\* the threads under the clock
NextThreads ==
  \/ \E i \in Threads, n \in ThreadSubjects : Enter(i, n)
  \/ \E i \in Threads : Acquire(i)
  \/ \E i \in Threads : Check(i)
  \/ \E i \in Threads : Set(i)
  \/ \E i \in Threads : Release(i)
  \/ \E i \in Threads, connected \in BOOLEAN : Database(i, connected)
  \/ \E i \in Threads : Sink(i)
  \/ \E i \in Threads : Return(i)
  \/ Tick

InitThreads ==
  /\ InitProgram
  /\ snapshots = <<>>
  /\ probe = NoProbe

SpecThreads == InitThreads /\ [][NextThreads]_vars

\* ------------------------------------------------------------------------
\* The pure functions on their own: normalization and the diff engine
\* ------------------------------------------------------------------------

\* the fragments raw identifiers are made of
Fragments ==
  { PublicDot, <<"p", "u", "b">>, <<"l", "i", "c", ".">>, Quote, Brackets,
    <<"[">>, <<"]">>, <<" ">>, <<"O">> }

RECURSIVE Concat(_)
Concat(ss) == IF ss = <<>> THEN <<>> ELSE Head(ss) \o Concat(Tail(ss))

\* the raw identifiers of at most MaxTokens fragments
RawInputs ==
  { Concat(ss) : ss \in UNION { [1..n -> Fragments] : n \in 0..MaxTokens } }

InitNorm ==
  /\ InitProgram
  /\ snapshots = <<>>
  /\ probe \in { [fn |-> "raw", x |-> r] : r \in RawInputs }

\* line 190 applied to a raw identifier
NormalizeOnce ==
  /\ probe.fn = "raw"
  /\ probe' = [fn |-> "normalized", x |-> probe.x, once |-> Normalize(probe.x)]
  /\ UNCHANGED <<now, pc, subs, recent, catalog, snapshots, sent, last, accepted, threads,
               notification_lock>>

\* line 190 applied to what it returned
NormalizeAgain ==
  /\ probe.fn = "normalized"
  /\ probe' = [fn |-> "renormalized", x |-> probe.x, once |-> probe.once,
               twice |-> Normalize(probe.once)]
  /\ UNCHANGED <<now, pc, subs, recent, catalog, snapshots, sent, last, accepted, threads,
               notification_lock>>

NextNorm == NormalizeOnce \/ NormalizeAgain

SpecNorm == InitNorm /\ [][NextNorm]_vars

\* the columns and the column details of the diff engine's inputs
DiffColumns == { ColOrder[i] : i \in 1..NumCols }
DiffDetails ==
  { Details("int", "NO"), Details("text", "NO"), Details("varchar", "NO"),
    Details("int", "YES") }
\* every structural description over them
DiffDescs == UNION { [D -> DiffDetails] : D \in SUBSET DiffColumns }

InitDiff ==
  /\ InitProgram
  /\ snapshots = <<>>
  /\ probe \in { [fn |-> "cols", old |-> o, new |-> n] : o \in DiffDescs, n \in DiffDescs }

\* line 227 applied to two structural descriptions
Diff ==
  /\ probe.fn = "cols"
  /\ probe' = [fn |-> "diff", old |-> probe.old, new |-> probe.new,
               out |-> generate_schema_diff(probe.old, probe.new)]
  /\ UNCHANGED <<now, pc, subs, recent, catalog, snapshots, sent, last, accepted, threads,
               notification_lock>>

NextDiff == Diff

SpecDiff == InitDiff /\ [][NextDiff]_vars

\* the texts of at most MaxTextLen characters
TextChars == { "a", "b" }
ShortTexts == UNION { [1..n -> TextChars] : n \in 0..MaxTextLen }
\* a definition text of 5000 characters
LongDefinition == [i \in 1..5000 |-> IF i % 2 = 1 THEN "a" ELSE "b"]

\* the arguments of safe_truncate: a short text with a small limit, and the
\* long definition with the default limit, as line 178 calls it
InitTrunc ==
  /\ InitProgram
  /\ snapshots = <<>>
  /\ probe \in { [fn |-> "text", text |-> t, limit |-> l] :
                    t \in ShortTexts, l \in 0..MaxTextLen }
               \cup { [fn |-> "text", text |-> LongDefinition, limit |-> DefaultLimit] }

Truncate ==
  /\ probe.fn = "text"
  /\ probe' = [fn |-> "truncated", text |-> probe.text, limit |-> probe.limit,
               out |-> safe_truncate(probe.text, probe.limit)]
  /\ UNCHANGED <<now, pc, subs, recent, catalog, snapshots, sent, last, accepted, threads,
               notification_lock>>

NextTrunc == Truncate

SpecTrunc == InitTrunc /\ [][NextTrunc]_vars

\* ------------------------------------------------------------------------
\* Properties
\* ------------------------------------------------------------------------

\* the most recent step handled a schema notification that got past the
\* filters of lines 188 and 193 and was let through by the deduplicator
AcceptedStep(command) ==
  last.op = "schema" /\ last.outcome = "accepted" /\ last.command = command

\* the key of the snapshot of a subject
KeyOf(subject) == <<"p", "u", "b", "l", "i", "c", ".">> \o subject

\* C1: an event for subject S that passes the filters is rejected as a
\* duplicate if and only if an earlier event for S was accepted less than 5
\* seconds before it.
C1_DedupSuppression ==
  [][ (last'.op = "schema" /\ last'.outcome \in { "duplicate", "accepted" })
        => (last'.outcome = "duplicate"
              <=> \E t \in AcceptedAt(accepted, last'.subject) : now - t < 5) ]_vars

\* a CREATE TABLE is rejected within 5 seconds of an accepted event of its
\* subject, which had been accepted a second time 6 seconds or more after the
\* first
C1_Witness ==
  /\ last.op = "schema" /\ last.outcome = "duplicate" /\ last.command = CreateTable
  /\ \E t1, t2 \in AcceptedAt(accepted, last.subject) :
       t2 - t1 >= 6 /\ now - t2 < 5 /\ now - t1 >= 6

\* C2: normalizing a normalized identifier changes nothing.
C2_NormalizeIdempotent ==
  probe.fn = "renormalized" => probe.twice = probe.once

\* C3: an event whose object_type is present and is not "table" changes
\* neither the dedup cache nor the snapshot store and sends no message.
C3_TypeFilter ==
  [][ (last'.op = "schema" /\ last'.object_type = "index")
        => (recent' = recent /\ snapshots' = snapshots /\ sent' = <<>>) ]_vars

\* C4: when the database phase of an accepted event fails, the failure is
\* logged, no message is sent for the event and the process goes on.
C4_PersistenceFailureAborts ==
  (last.op = "schema" /\ last.outcome = "accepted"
     /\ last.db \in { "failed", "connect_failed" })
    => (last.logged # {} /\ sent = <<>> /\ pc \in { "listening", "backoff" })

\* the keys public.t of the live base tables
LiveKeys == { KeyOf(t) : t \in { u \in TableNames : catalog[u].exists } }

ExpectedAdded ==
  { [kind |-> "added", col |-> c, type |-> probe.new[c].type] :
      c \in DOMAIN probe.new \ DOMAIN probe.old }
ExpectedRemoved ==
  { [kind |-> "removed", col |-> c] : c \in DOMAIN probe.old \ DOMAIN probe.new }
ExpectedModified ==
  { [kind |-> "modified", col |-> c, old |-> probe.old[c].type, new |-> probe.new[c].type] :
      c \in { x \in DOMAIN probe.old \cap DOMAIN probe.new :
                probe.old[x].type # probe.new[x].type } }
Expected == ExpectedAdded \cup ExpectedRemoved \cup ExpectedModified

Rank(entry) ==
  CASE entry.kind = "added" -> 1
    [] entry.kind = "removed" -> 2
    [] entry.kind = "modified" -> 3
    [] OTHER -> 0

ExampleOld == ("a" :> Details("int", "NO")) @@ ("b" :> Details("text", "NO"))
ExampleNew == ("b" :> Details("varchar", "NO")) @@ ("c" :> Details("int", "NO"))

\* C6: the diff holds exactly one entry per added, removed and type-changed
\* column, nothing else but the placeholder of an empty diff, in the order
\* added, removed, type-changed.
C6_DiffCorrect ==
  probe.fn = "diff" =>
    /\ \A e \in Expected : Cardinality({ i \in 1..Len(probe.out) : probe.out[i] = e }) = 1
    /\ \A i \in 1..Len(probe.out) :
         probe.out[i] \in Expected \/ (Expected = {} /\ probe.out[i].kind = "no_column_changes")
    /\ \A i, j \in 1..Len(probe.out) : i < j => Rank(probe.out[i]) <= Rank(probe.out[j])
    /\ (probe.old = ExampleOld /\ probe.new = ExampleNew)
         => probe.out = << [kind |-> "added", col |-> "c", type |-> "int"],
                           [kind |-> "removed", col |-> "a"],
                           [kind |-> "modified", col |-> "b", old |-> "text", new |-> "varchar"] >>

\* the diff of the example was computed
C6_Witness ==
  /\ probe.fn = "diff"
  /\ probe.old = ExampleOld /\ probe.new = ExampleNew
  /\ Len(probe.out) = 3

\* C7: the diff is never empty; it is the placeholder when old and new hold
\* the same columns with the same types, and only when no column was added,
\* removed or changed in type.
C7_NoOpDiff ==
  probe.fn = "diff" =>
    /\ probe.out # <<>>
    /\ (DOMAIN probe.old = DOMAIN probe.new
          /\ \A c \in DOMAIN probe.old : probe.old[c].type = probe.new[c].type)
         => probe.out = << [kind |-> "no_column_changes"] >>
    /\ probe.out = << [kind |-> "no_column_changes"] >> => Expected = {}

\* the diff of two descriptions with the same columns and types, which
\* differ in nullability only, was computed
C7_Witness ==
  /\ probe.fn = "diff"
  /\ probe.old # probe.new
  /\ DOMAIN probe.old = DOMAIN probe.new /\ DOMAIN probe.old # {}
  /\ \A c \in DOMAIN probe.old : probe.old[c].type = probe.new[c].type
  /\ probe.out = << [kind |-> "no_column_changes"] >>

\* what C8 claims of an accepted CREATE TABLE for a subject
CreateOutcome(subject) ==
  /\ KeyOf(subject) \in DOMAIN snapshots
  /\ subject \in TableNames
  /\ catalog[subject].exists
  /\ snapshots[KeyOf(subject)].columns_data =
       (IF DOMAIN catalog[subject].cols = {} THEN [null |-> TRUE]
        ELSE [null |-> FALSE, obj |-> catalog[subject].cols])
  /\ Len(sent) = 1
  /\ sent[1].channel = "supabase-schema-updates"
  /\ sent[1].table = subject
  /\ Len(sent[1].elements) = 1
  /\ sent[1].elements[1].action_id = "view_schema_details"
  /\ sent[1].elements[1].value = subject

DropOutcome ==
  /\ KeyOf(last'.subject) \notin DOMAIN snapshots'
  /\ DOMAIN snapshots' = DOMAIN snapshots \ { KeyOf(last'.subject) }
  /\ \A k \in DOMAIN snapshots' : snapshots'[k] = snapshots[k]
  /\ Len(sent') = 1
  /\ sent'[1].title = "Table Deleted"
  /\ sent'[1].table = last'.subject
  /\ sent'[1].elements = <<>>

C10_VanishedTableIsNoError ==
  (last.op = "view" /\ last.fail = "none" /\ ~catalog[last.identity].exists)
    => /\ ~last.intro.raised
       /\ last.intro.cols_json = [null |-> FALSE, obj |-> <<>>]
       /\ ~last.intro.raw_sql_string.null

\* C11: an event of a tracked command whose subject normalizes to a name that
\* holds _pkey, _seq, _idx, pg_toast or _fkey in any case is ignored: the
\* dedup cache and the snapshot store are left as they are and nothing is
\* sent.
C11_NoiseFilter ==
  [][ (last'.op = "schema" /\ last'.command \in { CreateTable, AlterTable, DropTable }
         /\ last'.subject \in ArtifactNames)
        => (last'.outcome = "ignored" /\ recent' = recent /\ snapshots' = snapshots
              /\ accepted' = accepted /\ sent' = <<>>) ]_vars

\* a DROP TABLE of an artifact named in upper case was ignored while the
\* cache and the store held entries
C11_Witness ==
  /\ last.op = "schema" /\ last.outcome = "ignored" /\ last.command = DropTable
  /\ last.subject = <<"P", "G", "_", "T", "O", "A", "S", "T", "_", "O">>
  /\ DOMAIN recent # {} /\ DOMAIN snapshots # {}

\* what C12 claims is sent for the row of a monitored table
RowOutcome(payload, requests) ==
  LET row == IF payload.has_data THEN payload.data ELSE <<>>
      rule == MONITORED_TABLES[payload.table]
  IN  /\ Len(requests) = 1
      /\ requests[1].channel = rule.channel
      /\ requests[1].table = payload.table
      /\ requests[1].item = (IF rule.display_column \in DOMAIN row
                              THEN row[rule.display_column]
                              ELSE [null |-> FALSE, str |-> "N/A"])
      /\ Len(requests[1].elements) = 1
      /\ requests[1].elements[1].action_id = "view_row_details"
      /\ { requests[1].elements[1].value[i] : i \in 1..Len(requests[1].elements[1].value) }
           = { <<c, row[c]>> : c \in DOMAIN row }

\* C12: every row event of a monitored table sends one message to the rule's
\* channel with the display column's value, or N/A when the row has no such
\* column, and one button holding the whole row, also when the same event was
\* handled just before; a row event of any other table sends nothing; neither
\* changes the dedup cache or the snapshot store.
C12_RowEventsNotDeduplicated ==
  [][ last'.op = "data" =>
        /\ recent' = recent /\ snapshots' = snapshots /\ accepted' = accepted
        /\ IF last'.payload.table \in { "Client", "Customer", "SystemWarning" }
           THEN RowOutcome(last'.payload, sent')
           ELSE sent' = <<>> ]_vars

\* the same row of a monitored table was handled twice in a row within the
\* window of an accepted schema event, and was sent the second time
C12_Witness ==
  /\ last.op = "data" /\ last.repeat
  /\ last.payload.table = "Customer" /\ last.payload.has_data
  /\ DOMAIN last.payload.data = { "name" }
  /\ Len(sent) = 1
  /\ DOMAIN recent # {}

\* C13: safe_truncate returns a text of at most `limit` characters as it is,
\* and of a longer one the first `limit` characters followed by the marker; of
\* a definition of 5000 characters it returns at most 2800 characters of the
\* definition followed by the marker.
C13_Truncation ==
  probe.fn = "truncated" =>
    /\ Len(probe.text) <= probe.limit => probe.out = probe.text
    /\ Len(probe.text) > probe.limit =>
         /\ Len(probe.out) = probe.limit + Len(TruncationMarker)
         /\ \A i \in 1..probe.limit : probe.out[i] = probe.text[i]
         /\ \A i \in 1..Len(TruncationMarker) :
              probe.out[probe.limit + i] = TruncationMarker[i]
    /\ Len(probe.text) = 5000 =>
         \E n \in 0..2800 :
           /\ Len(probe.out) = n + Len(TruncationMarker)
           /\ SubSeq(probe.out, 1, n) = SubSeq(probe.text, 1, n)
           /\ SubSeq(probe.out, n + 1, Len(probe.out)) = TruncationMarker

\* the definition of 5000 characters was cut at the default limit
C13_Witness ==
  /\ probe.fn = "truncated"
  /\ Len(probe.text) = 5000
  /\ probe.limit = 2500
  /\ Len(probe.out) = 2500 + Len(TruncationMarker)

\* C14: for an accepted ALTER TABLE on S whose snapshot read and introspection
\* went through, the message carries no changes when the snapshot public.S is
\* absent or empty and the diff of the stored structure against the
\* introspected one otherwise, and it carries the 'view full schema' button;
\* when the database phase succeeds the snapshot public.S holds the
\* introspected structure afterwards.
C14_AlterHandling ==
  [][ (last'.op = "schema" /\ last'.outcome = "accepted" /\ last'.command = AlterTable
         /\ last'.intro = "returned")
        => LET key == KeyOf(last'.subject)
               fresh == catalog[last'.subject].cols
               stored == IF key \in DOMAIN snapshots /\ ~snapshots[key].columns_data.null
                         THEN snapshots[key].columns_data.obj
                         ELSE <<>>
           IN  /\ Len(sent') = 1
               /\ sent'[1].changes = (IF DOMAIN stored = {} THEN <<>>
                                      ELSE generate_schema_diff(stored, fresh))
               /\ Len(sent'[1].elements) = 1
               /\ sent'[1].elements[1].value = last'.subject
               /\ last'.db = "ok" =>
                    /\ key \in DOMAIN snapshots'
                    /\ snapshots'[key].columns_data =
                         (IF DOMAIN fresh = {} THEN [null |-> TRUE]
                          ELSE [null |-> FALSE, obj |-> fresh]) ]_vars

\* the latest of a set of times
Latest(times) == CHOOSE t \in times : \A u \in times : u <= t

\* C15: an accepted event puts its time in the dedup cache whatever becomes
\* of its database phase; the cache holds for every subject the time of its
\* latest accepted event in every state; and an event for the subject of an
\* accepted event whose processing failed, less than 5 seconds after it, is
\* rejected.
C15_AcceptanceIrreversible ==
  [][ /\ (last'.op = "schema" /\ last'.outcome = "accepted")
           => (last'.subject \in DOMAIN recent' /\ recent'[last'.subject] = now)
      /\ \A n \in DOMAIN accepted' :
           n \in DOMAIN recent' /\ recent'[n] = Latest(accepted'[n])
      /\ (/\ last.op = "schema" /\ last.outcome = "accepted"
          /\ last.db \in { "failed", "connect_failed" }
          /\ last'.op = "schema" /\ last'.outcome \in { "accepted", "duplicate" }
          /\ last'.subject = last.subject
          /\ now - Latest(accepted[last.subject]) < 5)
           => (last'.outcome = "duplicate" /\ recent' = recent) ]_vars

\* an accepted event whose database phase raised, not the first accepted
\* event of its subject: its time is in the cache
C15_Witness ==
  /\ last.op = "schema" /\ last.outcome = "accepted" /\ last.db = "failed"
  /\ last.command = AlterTable
  /\ recent[last.subject] = now
  /\ Cardinality(accepted[last.subject]) >= 2

\* the step ended at the except clause of listen_forever
ReachedExcept ==
  \/ last'.op \in { "lost", "bad_payload" }
  \/ last'.op = "connect" /\ ~last'.ok
  \/ last'.op = "schema" /\ last'.db = "connect_failed"

\* C16: a lost connection, a failed connect and an exception that leaves the
\* handling of a notification all take the loop to its 5 second sleep; from
\* the sleep the loop goes nowhere but to a new connect, 5 seconds later (or
\* at the end of the clock); listening is entered by nothing but a connect
\* that issued LISTEN on both channels; no notification is handled unless the
\* loop listens on both; and the loop, when it sleeps or connects, gets back
\* to listening.
C16_LoopSelfHeals ==
  /\ [][ /\ ReachedExcept => pc' = "backoff"
         /\ pc = "backoff" =>
              /\ pc' = "connect" /\ last'.op = "backoff"
              /\ now' = now + 5 \/ now' = MaxTime
         /\ (pc' = "listening" /\ pc # "listening") =>
              (pc = "connect" /\ last'.op = "connect" /\ last'.ok)
         /\ pc' = "listening" => subs' = { "schema_changes", "table_data_updates" }
         /\ last'.op \in { "schema", "data" } =>
              (pc = "listening" /\ subs = { "schema_changes", "table_data_updates" })
         /\ pc' \in { "connect", "listening", "backoff" } ]_vars
  /\ (pc \in { "backoff", "connect" }) ~> (pc = "listening")

\* the loop listens again after it slept at its except clause
C16_Witness ==
  /\ pc = "listening"
  /\ last.op = "connect" /\ last.ok
  /\ now >= RetrySeconds
  /\ subs = { "schema_changes", "table_data_updates" }

\* C17: at most one thread holds the lock; a thread holds it exactly while it
\* is inside the with block, so neither after the return of a duplicate nor
\* during the database and sink calls; and no two calls that run side by side
\* for the same subject with timestamps less than 5 seconds apart both get
\* past the check.
C17_AtomicCheckAndSet ==
  /\ Cardinality(notification_lock) <= 1
  /\ \A i \in Threads :
       i \in notification_lock
         <=> threads[i].at \in { "locked", "duplicate", "fresh", "recorded" }
  /\ \A i, j \in Threads :
       (/\ i # j
        /\ threads[i].at \in { "recorded", "database", "sink", "returned" }
        /\ threads[j].at \in { "recorded", "database", "sink", "returned" }
        /\ threads[i].name = threads[j].name)
         => (threads[i].t - threads[j].t >= 5 \/ threads[j].t - threads[i].t >= 5)

\* one thread is in its database call for a subject while the other, called
\* for the same subject within the window, holds the lock and was found a
\* duplicate
C17_Witness ==
  /\ threads["T1"].at = "database"
  /\ threads["T2"].at = "duplicate"
  /\ threads["T1"].name = threads["T2"].name
  /\ notification_lock = { "T2" }

\* C18: an ALTER TABLE or DROP TABLE for a subject that had an event of any
\* tracked command accepted less than 5 seconds before is rejected and leaves
\* cache, store and sink alone; a DROP TABLE handled right after an accepted
\* CREATE TABLE of its subject, within 5 seconds of it, leaves the snapshot the
\* CREATE wrote in the store and sends nothing.
C18_DedupKeyedOnSubject ==
  [][ /\ (/\ last'.op = "schema" /\ last'.command \in { AlterTable, DropTable }
          /\ last'.outcome \in { "accepted", "duplicate" }
          /\ \E t \in AcceptedAt(accepted, last'.subject) : now - t < 5)
           => (last'.outcome = "duplicate" /\ recent' = recent
                 /\ snapshots' = snapshots /\ sent' = <<>>)
      /\ (/\ last.op = "schema" /\ last.outcome = "accepted" /\ last.db = "ok"
          /\ last.command = CreateTable
          /\ last'.op = "schema" /\ last'.command = DropTable
          /\ last'.subject = last.subject
          /\ now - Latest(accepted[last.subject]) < 5)
           => (KeyOf(last.subject) \in DOMAIN snapshots' /\ sent' = <<>>) ]_vars

\* a DROP TABLE was rejected less than 5 seconds after an accepted event of
\* its subject, whose snapshot is in the store
C18_Witness ==
  /\ last.op = "schema" /\ last.outcome = "duplicate" /\ last.command = DropTable
  /\ \E t \in AcceptedAt(accepted, last.subject) : now - t < 5
  /\ KeyOf(last.subject) \in DOMAIN snapshots

\* C19: a rejected duplicate leaves the cache as it is; the accepted events of
\* a subject are 5 seconds or more apart; and an event that arrives 5 seconds
\* or more after the last accepted event of its subject is accepted.
C19_WindowAnchoredAtAccept ==
  [][ /\ (last'.op = "schema" /\ last'.outcome = "duplicate") => recent' = recent
      /\ \A n \in DOMAIN accepted' :
           \A t1, t2 \in accepted'[n] : t1 < t2 => t2 - t1 >= 5
      /\ (/\ last'.op = "schema" /\ last'.outcome \in { "accepted", "duplicate" }
          /\ last'.subject \in DOMAIN accepted
          /\ now - Latest(accepted[last'.subject]) >= 5)
           => last'.outcome = "accepted" ]_vars

\* an event was accepted exactly 5 seconds after the accepted event of its
\* subject before it
C19_Witness ==
  /\ last.op = "schema" /\ last.outcome = "accepted" /\ last.command = AlterTable
  /\ last.subject \in DOMAIN accepted
  /\ now \in accepted[last.subject]
  /\ now - 5 \in accepted[last.subject]

\* C20: a sweep in which the connect, the listing, the delete, an
\* introspection, an upsert or the commit raises leaves the store as it was,
\* logs the error and lets the process go on to the polling loop; a sweep
\* leaves the store either as it was or with exactly the live tables.
C20_SyncAllOrNothing ==
  [][ last'.op = "sync" =>
        /\ pc' = "connect"
        /\ last'.db = "failed" =>
             (snapshots' = snapshots /\ last'.logged = { "Startup Sync Error" })
        /\ snapshots' = snapshots
             \/ DOMAIN snapshots' = { KeyOf(t) : t \in { u \in TableNames : catalog[u].exists } }
     ]_vars

\* an upsert of the sweep raised after the delete had run, with a snapshot of
\* a table that is not live in the store and a live table without a snapshot
C20_Witness ==
  /\ last.op = "sync" /\ last.db = "failed" /\ last.fail = "write"
  /\ pc = "connect"
  /\ DOMAIN snapshots \ LiveKeys # {}
  /\ LiveKeys \ DOMAIN snapshots # {}

====
